---- MODULE Spec2Model ----
(***************************************************************************)
(* AetherDB wire protocol (crate aether-protocol).                         *)
(*                                                                         *)
(* The crate declares the message types (types.rs, request.rs,             *)
(* response.rs) and derives serde's Serialize/Deserialize for them; its    *)
(* tests push values through bincode and serde_json (lib.rs).  The model   *)
(* keeps the declarations as tables, in declaration order, and interprets  *)
(* them the way the derived impls drive the two serializers.               *)
(*                                                                         *)
(* Representation of values:                                               *)
(*   String            a TLA+ string of StringPool (its bytes: Utf8)       *)
(*   bool, u64, usize  BOOLEAN, Nat                                        *)
(*   f64               [c |-> "fin", x2 |-> n] (the double n/2),           *)
(*                     [c |-> "nan"], [c |-> "inf", neg |-> b]             *)
(*   serde_json::Value its JSON syntax tree (see "JSON documents")         *)
(*   Option<T>         [some |-> FALSE] or [some |-> TRUE, v |-> x]        *)
(*   Vec<T>, tuples    sequences                                           *)
(*   HashMap<String,T> a function from its key set; the iteration order of *)
(*                     an instance is held apart (variable order)          *)
(*   struct            a record of its fields                              *)
(*   enum              a record with field tag (the variant name) and the  *)
(*                     variant's fields; the single unnamed field of a     *)
(*                     tuple variant is stored under the variant's name    *)
(***************************************************************************)
EXTENDS Integers, Sequences, FiniteSets, TLC

\* Longest Vec built by the constructors.
MaxLen == 2
\* Deepest nesting of Filter::And/Or and of Response::ResultMetrics built.
MaxDepth == 2
\* Integers at or above this stand for "some larger u64".
U64Cap == 16777216
\* The Filter nesting a decoder is to accept at most.  The specification
\* recommends 64; the model takes a small limit, and builds filters nested up
\* to MaxDepth levels beyond it.
MaxFilterDepth == 4
\* How many nested calls of the decoder the thread's stack holds.
StackFrames == 14

(***************************************************************************)
(* Type descriptors                                                        *)
(***************************************************************************)
TString == [k |-> "String"]
TBool == [k |-> "bool"]
TU64 == [k |-> "u64"]
TUsize == [k |-> "usize"]
TF64 == [k |-> "f64"]
TValue == [k |-> "Value"]
Opt(T) == [k |-> "Option", of |-> T]
Vec(T) == [k |-> "Vec", of |-> T]
Tup(ts) == [k |-> "Tuple", ts |-> ts]
MapOf(T) == [k |-> "HashMap", of |-> T]
Boxed(T) == [k |-> "Box", of |-> T]
Named(n) == [k |-> "Named", n |-> n]

Unit(name) == [name |-> name, shape |-> "unit", fields |-> <<>>]
Newtype(name, T) == [name |-> name, shape |-> "newtype", fields |-> << <<name, T>> >>]
Struct(name, fields) == [name |-> name, shape |-> "struct", fields |-> fields]

(***************************************************************************)
(* src/types.rs                                                            *)
(***************************************************************************)
RecordDecl == [shape |-> "alias", ty |-> MapOf(TValue)]

RecordSetDecl ==
  [shape |-> "struct", fields |-> << <<"records", Vec(Named("Record"))>> >>]

FilterDecl ==
  [shape |-> "enum", variants |-> <<
     Struct("Equals", << <<"field", TString>>, <<"value", TValue>> >>),
     Struct("NotEquals", << <<"field", TString>>, <<"value", TValue>> >>),
     Struct("GreaterThan", << <<"field", TString>>, <<"value", TF64>> >>),
     Struct("LessThan", << <<"field", TString>>, <<"value", TF64>> >>),
     Struct("In", << <<"field", TString>>, <<"values", Vec(TValue)>> >>),
     Newtype("And", Vec(Named("Filter"))),
     Newtype("Or", Vec(Named("Filter"))) >>]

QueryOptionsDecl ==
  [shape |-> "struct", fields |-> <<
     <<"sort_by", Opt(Tup(<<TString, Named("Direction")>>))>>,
     <<"limit", Opt(TUsize)>>,
     <<"offset", Opt(TUsize)>> >>]

DirectionDecl ==
  [shape |-> "enum", variants |-> << Unit("Asc"), Unit("Desc") >>]

DbStatsDecl ==
  [shape |-> "struct", fields |-> <<
     <<"collection_count", TUsize>>, <<"record_count", TUsize>> >>]

BatchRequestDecl ==
  [shape |-> "struct", fields |-> <<
     <<"requests", MapOf(Tup(<<TString, TString>>))>> >>]

BatchResponseDecl ==
  [shape |-> "struct", fields |-> <<
     <<"results", MapOf(Opt(Named("Record")))>> >>]

(***************************************************************************)
(* src/request.rs                                                          *)
(***************************************************************************)
RequestDecl ==
  [shape |-> "enum", variants |-> <<
     Struct("CreateDatabase", << <<"db_name", TString>> >>),
     Struct("DropDatabase", << <<"db_name", TString>> >>),
     Unit("ListDatabases"),
     Unit("ListCollections"),
     Struct("CreateCollection",
            << <<"db_name", TString>>, <<"collection_name", TString>> >>),
     Struct("DropCollection",
            << <<"db_name", TString>>, <<"collection_name", TString>> >>),
     Unit("GetStats"),
     Unit("Flush"),
     Struct("CreateIndex", << <<"db_name", TString>>, <<"collection", TString>>,
                              <<"field_name", TString>> >>),
     Struct("DropIndex", << <<"db_name", TString>>, <<"collection", TString>>,
                            <<"field_name", TString>> >>),
     Struct("ListIndexes", << <<"db_name", TString>>, <<"collection", TString>> >>),
     Struct("CreateRecord", << <<"db_name", TString>>, <<"collection", TString>>,
                               <<"record_id", TString>>, <<"data", Named("Record")>> >>),
     Struct("UpdateRecord", << <<"db_name", TString>>, <<"collection", TString>>,
                               <<"record_id", TString>>, <<"data", Named("Record")>> >>),
     Struct("UpsertRecord", << <<"db_name", TString>>, <<"collection", TString>>,
                               <<"record_id", TString>>, <<"data", Named("Record")>> >>),
     Struct("GetRecord", << <<"db_name", TString>>, <<"collection", TString>>,
                            <<"record_id", TString>> >>),
     Struct("DeleteRecord", << <<"db_name", TString>>, <<"collection", TString>>,
                               <<"record_id", TString>>, <<"cascade", TBool>> >>),
     Unit("GetLastInsertId"),
     Struct("FindRecords", << <<"db_name", TString>>, <<"collection", TString>>,
                              <<"filter", Named("Filter")>>,
                              <<"options", Opt(Named("QueryOptions"))>> >>),
     Struct("CountRecords", << <<"db_name", TString>>, <<"collection", TString>>,
                               <<"filter", Named("Filter")>> >>),
     Struct("GetRecordWithRelated",
            << <<"db_name", TString>>, <<"primary_collection", TString>>,
               <<"primary_record_id", TString>>, <<"relation_key_field", TString>>,
               <<"related_collection", TString>> >>),
     Newtype("ExecuteBatchGet", Named("BatchRequest")) >>]

(***************************************************************************)
(* src/response.rs                                                         *)
(***************************************************************************)
QueryMetricsDecl ==
  [shape |-> "struct", fields |-> << <<"execution_time_micros", TU64>> >>]

ResponseDecl ==
  [shape |-> "enum", variants |-> <<
     Unit("Success"),
     Newtype("Error", TString),
     Newtype("DatabaseList", Vec(TString)),
     Newtype("DatabaseCreated", TBool),
     Newtype("DatabaseDropped", TBool),
     Newtype("CollectionList", Vec(TString)),
     Newtype("Stats", Named("DbStats")),
     Newtype("IndexList", Vec(TString)),
     Newtype("Record", Opt(Named("Record"))),
     Newtype("RecordSet", Named("RecordSet")),
     Newtype("RecordCount", TU64),
     Newtype("RecordDeleted", TBool),
     Newtype("LastInsertId", TU64),
     Newtype("RecordWithRelated", Opt(Tup(<<Named("Record"), Named("Record")>>))),
     Newtype("BatchResponse", Named("BatchResponse")),
     Newtype("RecordIdSet", Vec(TString)),
     Struct("ResultMetrics", << <<"data", Boxed(Named("Response"))>>,
                                <<"metrics", Named("QueryMetrics")>> >>) >>]

Decl(n) ==
  CASE n = "Record" -> RecordDecl
    [] n = "RecordSet" -> RecordSetDecl
    [] n = "Filter" -> FilterDecl
    [] n = "QueryOptions" -> QueryOptionsDecl
    [] n = "Direction" -> DirectionDecl
    [] n = "DbStats" -> DbStatsDecl
    [] n = "BatchRequest" -> BatchRequestDecl
    [] n = "BatchResponse" -> BatchResponseDecl
    [] n = "Request" -> RequestDecl
    [] n = "QueryMetrics" -> QueryMetricsDecl
    [] n = "Response" -> ResponseDecl

VariantNamed(variants, tag) ==
  variants[CHOOSE i \in 1..Len(variants) : variants[i].name = tag]

\* Mutant: discriminants counted from 1.
VariantIndexFromOne(variants, tag) ==
  CHOOSE i \in 1..Len(variants) : variants[i].name = tag

\* Position of a variant in its enum, counted from 0 in declaration order
\* (what #[derive(Serialize)] passes as variant_index).
VariantIndex(variants, tag) ==
  (CHOOSE i \in 1..Len(variants) : variants[i].name = tag) - 1

HasVariant(variants, tag) == \E i \in 1..Len(variants) : variants[i].name = tag

(***************************************************************************)
(* Strings and numbers                                                     *)
(***************************************************************************)
NamePool == {"", "db"}
KeyPool == {"a", "k1"}
StringPool == NamePool \cup KeyPool
\* Any string that is not one of StringPool.
OtherString == "?"

\* The UTF-8 bytes of a string (str::as_bytes).
Utf8(s) ==
  CASE s = "" -> <<>>
    [] s = "a" -> <<97>>
    [] s = "db" -> <<100, 98>>
    [] s = "k1" -> <<107, 49>>
    [] OTHER -> <<63>>

Cont(b) == b \in 128..191

\* core::str::from_utf8 accepts exactly the well-formed sequences.
RECURSIVE ValidUtf8(_)
ValidUtf8(b) ==
  IF Len(b) = 0 THEN TRUE
  ELSE LET h == b[1]
           n == Len(b)
           Rest(i) == SubSeq(b, i + 1, n)
       IN CASE h < 128 -> ValidUtf8(Rest(1))
            [] h \in 194..223 -> n >= 2 /\ Cont(b[2]) /\ ValidUtf8(Rest(2))
            [] h = 224 -> n >= 3 /\ b[2] \in 160..191 /\ Cont(b[3]) /\ ValidUtf8(Rest(3))
            [] h \in (225..236) \cup (238..239) ->
                 n >= 3 /\ Cont(b[2]) /\ Cont(b[3]) /\ ValidUtf8(Rest(3))
            [] h = 237 -> n >= 3 /\ b[2] \in 128..159 /\ Cont(b[3]) /\ ValidUtf8(Rest(3))
            [] h = 240 -> n >= 4 /\ b[2] \in 144..191 /\ Cont(b[3]) /\ Cont(b[4])
                          /\ ValidUtf8(Rest(4))
            [] h \in 241..243 -> n >= 4 /\ Cont(b[2]) /\ Cont(b[3]) /\ Cont(b[4])
                                 /\ ValidUtf8(Rest(4))
            [] h = 244 -> n >= 4 /\ b[2] \in 128..143 /\ Cont(b[3]) /\ Cont(b[4])
                          /\ ValidUtf8(Rest(4))
            [] OTHER -> FALSE

\* String::from_utf8 on well-formed bytes.
FromUtf8(b) ==
  IF \E s \in StringPool : Utf8(s) = b
  THEN CHOOSE s \in StringPool : Utf8(s) = b
  ELSE OtherString

\* f64 values the constructors use: 0.0, 1.5, 21.0 and the non-finite ones.
Fin(x2) == [c |-> "fin", x2 |-> x2]
NaN == [c |-> "nan"]
Inf(neg) == [c |-> "inf", neg |-> neg]
F64Pool == {Fin(0), Fin(3), Fin(42), NaN, Inf(FALSE), Inf(TRUE)}
\* Any double that is not one of F64Pool.
OtherF64 == [c |-> "other"]

IsFinite(x) == x.c \in {"fin", "other"}

\* f64::to_le_bytes: the IEEE-754 binary64 image, least significant byte first.
F64Bits(x) ==
  CASE x = Fin(0) -> <<0, 0, 0, 0, 0, 0, 0, 0>>
    [] x = Fin(3) -> <<0, 0, 0, 0, 0, 0, 248, 63>>
    [] x = Fin(42) -> <<0, 0, 0, 0, 0, 0, 53, 64>>
    [] x = NaN -> <<0, 0, 0, 0, 0, 0, 248, 127>>
    [] x = Inf(FALSE) -> <<0, 0, 0, 0, 0, 0, 240, 127>>
    [] x = Inf(TRUE) -> <<0, 0, 0, 0, 0, 0, 240, 255>>
    [] OTHER -> <<1, 0, 0, 0, 0, 0, 0, 0>>

\* f64::from_le_bytes.
F64FromBits(b) ==
  IF \E x \in F64Pool : F64Bits(x) = b
  THEN CHOOSE x \in F64Pool : F64Bits(x) = b
  ELSE OtherF64

\* Fixed-width little-endian integers (bincode's fixint encoding).
U32LE(n) == <<n % 256, (n \div 256) % 256, (n \div 65536) % 256, 0>>
U64LE(n) == U32LE(n) \o <<0, 0, 0, 0>>

\* The integer held in little-endian bytes; U64Cap when it needs more than
\* three bytes.
LEValue(b) ==
  IF \E i \in 4..Len(b) : b[i] # 0 THEN U64Cap
  ELSE b[1] + 256 * b[2] + 65536 * b[3]

RECURSIVE Flat(_)
Flat(ss) == IF Len(ss) = 0 THEN <<>> ELSE Head(ss) \o Flat(Tail(ss))

\* The keys of a HashMap in the order its iterator yields them.  The order
\* depends on the instance's RandomState; an instance carries it as a
\* permutation of KeyPool.
Iter(keys, ord) == SelectSeq(ord, LAMBDA k : k \in keys)

(***************************************************************************)
(* bincode (lib.rs: bincode::serialize / bincode::deserialize)             *)
(***************************************************************************)
Err(e) == [ok |-> FALSE, err |-> e]
Drop(b, n) == SubSeq(b, n + 1, Len(b))
Take(b, n) == SubSeq(b, 1, n)

\* serde_json's Serialize for Value, driven into bincode: Null is
\* serialize_unit (no bytes), a number goes out as the bare u64 or f64, a
\* string, array or map as any other str, seq or map.  Nothing marks which
\* of the seven cases was written.
RECURSIVE EncValue(_)
EncValue(v) ==
  CASE v.t = "null" -> <<>>
    [] v.t = "bool" -> <<IF v.b THEN 1 ELSE 0>>
    [] v.t = "int" -> U64LE(v.n)
    [] v.t = "float" -> F64Bits(v.x)
    [] v.t = "str" -> U64LE(Len(Utf8(v.s))) \o Utf8(v.s)
    [] v.t = "arr" -> U64LE(Len(v.a)) \o Flat([i \in 1..Len(v.a) |-> EncValue(v.a[i])])
    [] v.t = "obj" ->
         U64LE(Len(v.m)) \o
         Flat([i \in 1..Len(v.m) |->
                 U64LE(Len(Utf8(v.m[i][1]))) \o Utf8(v.m[i][1]) \o EncValue(v.m[i][2])])

\* bincode::serialize of a value v of type T; ord is the iteration order of
\* the HashMaps of this instance.
RECURSIVE Enc(_, _, _)
\* Mutant: the fields are written last to first.
EncFieldsReversed(fields, v, ord) ==
  Flat([i \in 1..Len(fields) |->
          Enc(fields[Len(fields) + 1 - i][2], v[fields[Len(fields) + 1 - i][1]], ord)])

\* The fields of a struct or struct variant, in declaration order.
EncFields(fields, v, ord) ==
  Flat([i \in 1..Len(fields) |-> Enc(fields[i][2], v[fields[i][1]], ord)])

EncEnum(variants, v, ord) ==
  U32LE(VariantIndex(variants, v.tag))
    \o EncFields(VariantNamed(variants, v.tag).fields, v, ord)

EncMap(T, v, ord) ==
  LET ks == Iter(DOMAIN v, ord)
  IN U64LE(Len(ks)) \o
     Flat([i \in 1..Len(ks) |-> Enc(TString, ks[i], ord) \o Enc(T, v[ks[i]], ord)])

Enc(T, v, ord) ==
  CASE T.k = "String" -> U64LE(Len(Utf8(v))) \o Utf8(v)
    [] T.k = "bool" -> <<IF v THEN 1 ELSE 0>>
    [] T.k \in {"u64", "usize"} -> U64LE(v)
    [] T.k = "f64" -> F64Bits(v)
    [] T.k = "Value" -> EncValue(v)
    [] T.k = "Option" -> IF v.some THEN <<1>> \o Enc(T.of, v.v, ord) ELSE <<0>>
    [] T.k = "Vec" -> U64LE(Len(v)) \o Flat([i \in 1..Len(v) |-> Enc(T.of, v[i], ord)])
    [] T.k = "Tuple" -> Flat([i \in 1..Len(T.ts) |-> Enc(T.ts[i], v[i], ord)])
    [] T.k = "HashMap" -> EncMap(T.of, v, ord)
    [] T.k = "Box" -> Enc(T.of, v, ord)
    [] T.k = "Named" ->
         LET d == Decl(T.n)
         IN CASE d.shape = "alias" -> Enc(d.ty, v, ord)
              [] d.shape = "struct" -> EncFields(d.fields, v, ord)
              [] d.shape = "enum" -> EncEnum(d.variants, v, ord)

\* A function from the first components of the pairs to the second; a later
\* pair replaces an earlier one with the same key (HashMap::insert).
FromPairs(ps) ==
  [key \in {ps[i][1] : i \in 1..Len(ps)} |->
     ps[CHOOSE i \in 1..Len(ps) :
          /\ ps[i][1] = key
          /\ \A j \in (i + 1)..Len(ps) : ps[j][1] # key][2]]

\* What a decoder call hands back, besides its result: frames, the deepest
\* nesting of decoder calls it reached below itself.  The derived
\* Deserialize of a type calls that of each field in turn and stops at the
\* first that fails.
Ok(v, rest) == [ok |-> TRUE, v |-> v, rest |-> rest, frames |-> 0]
Fail(e) == [ok |-> FALSE, err |-> e, frames |-> 0]
\* r as seen by the caller of the call that produced it.
Nested(r) == [r EXCEPT !.frames = @ + 1]
\* rs, produced by a call made after the call that produced r returned.
After(r, rs) == [rs EXCEPT !.frames = IF r.frames > @ THEN r.frames ELSE @]

ReadInt(b, width) ==
  IF Len(b) < width THEN Fail("UnexpectedEof")
  ELSE Ok(LEValue(Take(b, width)), Drop(b, width))

\* serde_json's Deserialize for Value asks the format what comes next
\* (deserialize_any); bincode is not self-describing and refuses.
DecValue(b) == Fail("DeserializeAnyNotSupported")

DecString(b) ==
  LET n == ReadInt(b, 8)
  IN IF ~n.ok THEN n
     ELSE IF Len(n.rest) < n.v THEN Fail("UnexpectedEof")
     ELSE IF ~ValidUtf8(Take(n.rest, n.v)) THEN Fail("InvalidUtf8Encoding")
     ELSE Ok(FromUtf8(Take(n.rest, n.v)), Drop(n.rest, n.v))

\* bincode::deserialize of a value of type T from the front of b.
RECURSIVE Dec(_, _), DecSeq(_, _, _), DecTuple(_, _), DecEntries(_, _, _), DecFields(_, _)

\* n elements of type T, one after the other.
DecSeq(T, n, b) ==
  IF n = 0 THEN Ok(<<>>, b)
  ELSE LET r == Dec(T, b)
       IN IF ~r.ok THEN r
          ELSE LET rs == After(r, DecSeq(T, n - 1, r.rest))
               IN IF ~rs.ok THEN rs ELSE [rs EXCEPT !.v = <<r.v>> \o @]

DecTuple(ts, b) ==
  IF Len(ts) = 0 THEN Ok(<<>>, b)
  ELSE LET r == Dec(Head(ts), b)
       IN IF ~r.ok THEN r
          ELSE LET rs == After(r, DecTuple(Tail(ts), r.rest))
               IN IF ~rs.ok THEN rs ELSE [rs EXCEPT !.v = <<r.v>> \o @]

\* n (key, value) entries of a map; the result is the sequence of pairs.
DecEntries(T, n, b) ==
  IF n = 0 THEN Ok(<<>>, b)
  ELSE LET key == Nested(DecString(b))
       IN IF ~key.ok THEN key
          ELSE LET val == After(key, Dec(T, key.rest))
               IN IF ~val.ok THEN val
                  ELSE LET rs == After(val, DecEntries(T, n - 1, val.rest))
                       IN IF ~rs.ok THEN rs
                          ELSE [rs EXCEPT !.v = << <<key.v, val.v>> >> \o @]

\* The fields of a struct or struct variant, in declaration order; the
\* result is the sequence of (name, value) pairs.
DecFields(fields, b) ==
  IF Len(fields) = 0 THEN Ok(<<>>, b)
  ELSE LET r == Dec(Head(fields)[2], b)
       IN IF ~r.ok THEN r
          ELSE LET rs == After(r, DecFields(Tail(fields), r.rest))
               IN IF ~rs.ok THEN rs
                  ELSE [rs EXCEPT !.v = << <<Head(fields)[1], r.v>> >> \o @]

DecOption(T, b) ==
  IF Len(b) = 0 THEN Fail("UnexpectedEof")
  ELSE CASE b[1] = 0 -> Ok([some |-> FALSE], Drop(b, 1))
         [] b[1] = 1 -> LET r == Dec(T, Drop(b, 1))
                        IN IF ~r.ok THEN r ELSE [r EXCEPT !.v = [some |-> TRUE, v |-> @]]
         [] OTHER -> Fail("InvalidTagEncoding")

DecEnum(variants, b) ==
  LET idx == ReadInt(b, 4)
  IN IF ~idx.ok THEN idx
     ELSE IF idx.v >= Len(variants) THEN Fail("InvalidVariantIndex")
     ELSE LET var == variants[idx.v + 1]
              r == DecFields(var.fields, idx.rest)
          IN IF ~r.ok THEN r
             ELSE [r EXCEPT !.v = FromPairs(<< <<"tag", var.name>> >> \o @)]

\* One call of a type's Deserialize; a type alias is the call of its type.
Dec(T, b) ==
  IF T.k = "Named" /\ Decl(T.n).shape = "alias" THEN Dec(Decl(T.n).ty, b)
  ELSE Nested(
    CASE T.k = "String" -> DecString(b)
      [] T.k = "bool" ->
           IF Len(b) = 0 THEN Fail("UnexpectedEof")
           ELSE IF b[1] \notin {0, 1} THEN Fail("InvalidBoolEncoding")
           ELSE Ok(b[1] = 1, Drop(b, 1))
      [] T.k \in {"u64", "usize"} -> ReadInt(b, 8)
      [] T.k = "f64" ->
           IF Len(b) < 8 THEN Fail("UnexpectedEof")
           ELSE Ok(F64FromBits(Take(b, 8)), Drop(b, 8))
      [] T.k = "Value" -> DecValue(b)
      [] T.k = "Option" -> DecOption(T.of, b)
      [] T.k = "Vec" ->
           LET n == ReadInt(b, 8) IN IF ~n.ok THEN n ELSE DecSeq(T.of, n.v, n.rest)
      [] T.k = "Tuple" -> DecTuple(T.ts, b)
      [] T.k = "HashMap" ->
           LET n == ReadInt(b, 8)
           IN IF ~n.ok THEN n
              ELSE LET es == DecEntries(T.of, n.v, n.rest)
                   IN IF ~es.ok THEN es ELSE [es EXCEPT !.v = FromPairs(@)]
      [] T.k = "Box" -> Dec(T.of, b)
      [] T.k = "Named" ->
           LET d == Decl(T.n)
           IN CASE d.shape = "struct" ->
                     LET r == DecFields(d.fields, b)
                     IN IF ~r.ok THEN r ELSE [r EXCEPT !.v = FromPairs(@)]
                [] d.shape = "enum" -> DecEnum(d.variants, b))

\* A thread that runs out of stack does not return: the guard page stops it
\* and the process is aborted.
StackOverflow == [ok |-> FALSE, err |-> "stack overflow, process aborted"]

\* bincode::deserialize(&bytes).  Bytes left over after the value are
\* allowed by the options this function uses.  No option limits the depth
\* of the recursion, which follows the nesting the bytes announce.
BincodeDeserialize(T, b) ==
  LET r == Dec(T, b)
  IN IF r.frames > StackFrames THEN StackOverflow
     ELSE IF r.ok THEN [ok |-> TRUE, v |-> r.v]
     ELSE [ok |-> FALSE, err |-> r.err]

(***************************************************************************)
(* JSON documents (lib.rs: serde_json::to_string / serde_json::from_str)   *)
(*                                                                         *)
(* A document is kept as its syntax tree:                                  *)
(*   null  [t |-> "null"]          true/false  [t |-> "bool", b |-> ..]    *)
(*   an integer literal  [t |-> "int", n |-> ..]                           *)
(*   a literal with a fraction or exponent  [t |-> "float", x |-> ..]      *)
(*   a string  [t |-> "str", s |-> ..]     an array  [t |-> "arr", a |-> ..]*)
(*   an object  [t |-> "obj", m |-> the (name, value) members in order]    *)
(* serde_json::Value is this tree: Number keeps apart the integers (an     *)
(* integer literal) and the finite floats (any other literal).  Objects    *)
(* inside a Value have at most one member here, so the order in which      *)
(* serde_json's Map keeps them is the document's.                          *)
(***************************************************************************)
JNull == [t |-> "null"]
JBool(b) == [t |-> "bool", b |-> b]
JInt(n) == [t |-> "int", n |-> n]
JFloat(x) == [t |-> "float", x |-> x]
JStr(s) == [t |-> "str", s |-> s]
JArr(a) == [t |-> "arr", a |-> a]
JObj(m) == [t |-> "obj", m |-> m]

\* serialize_f64: a finite double is printed as a number, NaN and the
\* infinities as null.
JsonF64(x) == IF IsFinite(x) THEN JFloat(x) ELSE JNull

RECURSIVE ToJson(_, _, _)
JsonFields(fields, v, ord) ==
  JObj([i \in 1..Len(fields) |->
          <<fields[i][1], ToJson(fields[i][2], v[fields[i][1]], ord)>>])

\* Mutant: the adjacently tagged form, {"t": name, "c": payload}.
JsonEnumAdjacentlyTagged(variants, v, ord) ==
  LET var == VariantNamed(variants, v.tag)
  IN CASE var.shape = "unit" -> JObj(<< <<"t", JStr(var.name)>> >>)
       [] var.shape = "newtype" ->
            JObj(<< <<"t", JStr(var.name)>>,
                    <<"c", ToJson(var.fields[1][2], v[var.name], ord)>> >>)
       [] var.shape = "struct" ->
            JObj(<< <<"t", JStr(var.name)>>, <<"c", JsonFields(var.fields, v, ord)>> >>)

\* serde's externally tagged form of an enum value.
JsonEnum(variants, v, ord) ==
  LET var == VariantNamed(variants, v.tag)
  IN CASE var.shape = "unit" -> JStr(var.name)
       [] var.shape = "newtype" ->
            JObj(<< <<var.name, ToJson(var.fields[1][2], v[var.name], ord)>> >>)
       [] var.shape = "struct" ->
            JObj(<< <<var.name, JsonFields(var.fields, v, ord)>> >>)

JsonMap(T, v, ord) ==
  LET ks == Iter(DOMAIN v, ord)
  IN JObj([i \in 1..Len(ks) |-> <<ks[i], ToJson(T, v[ks[i]], ord)>>])

\* The document serde_json::to_string writes for a value v of type T.
ToJson(T, v, ord) ==
  CASE T.k = "String" -> JStr(v)
    [] T.k = "bool" -> JBool(v)
    [] T.k \in {"u64", "usize"} -> JInt(v)
    [] T.k = "f64" -> JsonF64(v)
    [] T.k = "Value" -> v
    [] T.k = "Option" -> IF v.some THEN ToJson(T.of, v.v, ord) ELSE JNull
    [] T.k = "Vec" -> JArr([i \in 1..Len(v) |-> ToJson(T.of, v[i], ord)])
    [] T.k = "Tuple" -> JArr([i \in 1..Len(T.ts) |-> ToJson(T.ts[i], v[i], ord)])
    [] T.k = "HashMap" -> JsonMap(T.of, v, ord)
    [] T.k = "Box" -> ToJson(T.of, v, ord)
    [] T.k = "Named" ->
         LET d == Decl(T.n)
         IN CASE d.shape = "alias" -> ToJson(d.ty, v, ord)
              [] d.shape = "struct" -> JsonFields(d.fields, v, ord)
              [] d.shape = "enum" -> JsonEnum(d.variants, v, ord)

JOk(v) == [ok |-> TRUE, v |-> v]

Members(doc, name) == {i \in 1..Len(doc.m) : doc.m[i][1] = name}

\* What serde_json::from_str builds for type T from a document.  (A struct
\* is read from an object; the positional array form the derived impls
\* also take is left out.)
RECURSIVE FromJson(_, _), FromJsonSeq(_, _), FromJsonTuple(_, _),
          FromJsonMembers(_, _), FromJsonFields(_, _)

FromJsonSeq(T, docs) ==
  IF Len(docs) = 0 THEN JOk(<<>>)
  ELSE LET r == FromJson(T, Head(docs))
       IN IF ~r.ok THEN r
          ELSE LET rs == FromJsonSeq(T, Tail(docs))
               IN IF ~rs.ok THEN rs ELSE JOk(<<r.v>> \o rs.v)

FromJsonTuple(ts, docs) ==
  IF Len(ts) = 0 THEN JOk(<<>>)
  ELSE LET r == FromJson(Head(ts), Head(docs))
       IN IF ~r.ok THEN r
          ELSE LET rs == FromJsonTuple(Tail(ts), Tail(docs))
               IN IF ~rs.ok THEN rs ELSE JOk(<<r.v>> \o rs.v)

\* The members of an object read as map entries with values of type T.
FromJsonMembers(T, ms) ==
  IF Len(ms) = 0 THEN JOk(<<>>)
  ELSE LET r == FromJson(T, Head(ms)[2])
       IN IF ~r.ok THEN r
          ELSE LET rs == FromJsonMembers(T, Tail(ms))
               IN IF ~rs.ok THEN rs ELSE JOk(<< <<Head(ms)[1], r.v>> >> \o rs.v)

\* The declared fields taken from object doc: a field given twice is an
\* error, a missing field is an error unless it is an Option (then None),
\* members that name no field are skipped.
FromJsonFields(fields, doc) ==
  IF Len(fields) = 0 THEN JOk(<<>>)
  ELSE LET f == Head(fields)
           at == Members(doc, f[1])
           r == IF Cardinality(at) > 1 THEN Err("duplicate field")
                ELSE IF at = {} THEN
                       IF f[2].k = "Option" THEN JOk([some |-> FALSE])
                       ELSE Err("missing field")
                ELSE FromJson(f[2], doc.m[CHOOSE i \in at : TRUE][2])
       IN IF ~r.ok THEN r
          ELSE LET rs == FromJsonFields(Tail(fields), doc)
               IN IF ~rs.ok THEN rs ELSE JOk(<< <<f[1], r.v>> >> \o rs.v)

FromJsonVariant(var, payload) ==
  CASE var.shape = "unit" ->
         IF payload.t = "null" THEN JOk([tag |-> var.name]) ELSE Err("invalid type")
    [] var.shape = "newtype" ->
         LET r == FromJson(var.fields[1][2], payload)
         IN IF ~r.ok THEN r ELSE JOk(FromPairs(<< <<"tag", var.name>>, <<var.name, r.v>> >>))
    [] var.shape = "struct" ->
         IF payload.t # "obj" THEN Err("invalid type")
         ELSE LET r == FromJsonFields(var.fields, payload)
              IN IF ~r.ok THEN r ELSE JOk(FromPairs(<< <<"tag", var.name>> >> \o r.v))

FromJsonEnum(variants, doc) ==
  CASE doc.t = "str" ->
         IF ~HasVariant(variants, doc.s) THEN Err("unknown variant")
         ELSE IF VariantNamed(variants, doc.s).shape # "unit" THEN Err("invalid type")
         ELSE JOk([tag |-> doc.s])
    [] doc.t = "obj" ->
         IF Len(doc.m) # 1 THEN Err("invalid value")
         ELSE IF ~HasVariant(variants, doc.m[1][1]) THEN Err("unknown variant")
         ELSE FromJsonVariant(VariantNamed(variants, doc.m[1][1]), doc.m[1][2])
    [] OTHER -> Err("invalid type")

FromJson(T, doc) ==
  CASE T.k = "String" -> IF doc.t = "str" THEN JOk(doc.s) ELSE Err("invalid type")
    [] T.k = "bool" -> IF doc.t = "bool" THEN JOk(doc.b) ELSE Err("invalid type")
    [] T.k \in {"u64", "usize"} ->
         IF doc.t = "int" /\ doc.n >= 0 THEN JOk(doc.n) ELSE Err("invalid type")
    [] T.k = "f64" ->
         (CASE doc.t = "float" -> JOk(doc.x)
            [] doc.t = "int" -> JOk(Fin(2 * doc.n))
            [] OTHER -> Err("invalid type"))
    [] T.k = "Value" -> JOk(doc)
    [] T.k = "Option" ->
         IF doc.t = "null" THEN JOk([some |-> FALSE])
         ELSE LET r == FromJson(T.of, doc)
              IN IF ~r.ok THEN r ELSE JOk([some |-> TRUE, v |-> r.v])
    [] T.k = "Vec" ->
         IF doc.t = "arr" THEN FromJsonSeq(T.of, doc.a) ELSE Err("invalid type")
    [] T.k = "Tuple" ->
         IF doc.t # "arr" THEN Err("invalid type")
         ELSE IF Len(doc.a) # Len(T.ts) THEN Err("invalid length")
         ELSE FromJsonTuple(T.ts, doc.a)
    [] T.k = "HashMap" ->
         IF doc.t # "obj" THEN Err("invalid type")
         ELSE LET es == FromJsonMembers(T.of, doc.m)
              IN IF ~es.ok THEN es ELSE JOk(FromPairs(es.v))
    [] T.k = "Box" -> FromJson(T.of, doc)
    [] T.k = "Named" ->
         LET d == Decl(T.n)
         IN CASE d.shape = "alias" -> FromJson(d.ty, doc)
              [] d.shape = "struct" ->
                   IF doc.t # "obj" THEN Err("invalid type")
                   ELSE LET r == FromJsonFields(d.fields, doc)
                        IN IF ~r.ok THEN r ELSE JOk(FromPairs(r.v))
              [] d.shape = "enum" -> FromJsonEnum(d.variants, doc)

\* How many arrays and objects of the document enclose one another.
RECURSIVE JsonNesting(_)
JsonNesting(doc) ==
  LET Deepest(ds) == CHOOSE d \in ds \cup {0} : \A e \in ds : e <= d
  IN CASE doc.t = "arr" ->
            1 + Deepest({JsonNesting(doc.a[i]) : i \in 1..Len(doc.a)})
       [] doc.t = "obj" ->
            1 + Deepest({JsonNesting(doc.m[i][2]) : i \in 1..Len(doc.m)})
       [] OTHER -> 0

\* serde_json::from_str(&serialized).  The deserializer starts with a
\* remaining depth of 128, takes one off on entering an array or an object
\* and fails when none is left: 127 levels are read, the 128th is refused.
SerdeJsonFromStr(T, doc) ==
  IF JsonNesting(doc) > 127 THEN Err("RecursionLimitExceeded")
  ELSE FromJson(T, doc)

(***************************************************************************)
(* Equality (#[derive(PartialEq)], HashMap's and Value's PartialEq)        *)
(***************************************************************************)
\* Does v hold an f64 NaN?  NaN is the one value PartialEq tells apart from
\* itself.  (A Number inside a Value is never NaN.)
RECURSIVE HasNaN(_, _)
FieldsHaveNaN(fields, v) == \E i \in 1..Len(fields) : HasNaN(fields[i][2], v[fields[i][1]])

HasNaN(T, v) ==
  CASE T.k = "f64" -> v.c = "nan"
    [] T.k = "Option" -> v.some /\ HasNaN(T.of, v.v)
    [] T.k = "Vec" -> \E i \in 1..Len(v) : HasNaN(T.of, v[i])
    [] T.k = "Tuple" -> \E i \in 1..Len(T.ts) : HasNaN(T.ts[i], v[i])
    [] T.k = "HashMap" -> \E key \in DOMAIN v : HasNaN(T.of, v[key])
    [] T.k = "Box" -> HasNaN(T.of, v)
    [] T.k = "Named" ->
         (LET d == Decl(T.n)
          IN CASE d.shape = "alias" -> HasNaN(d.ty, v)
               [] d.shape = "struct" -> FieldsHaveNaN(d.fields, v)
               [] d.shape = "enum" ->
                    FieldsHaveNaN(VariantNamed(d.variants, v.tag).fields, v))
    [] OTHER -> FALSE

\* a == b for two values of type T.  Maps are functions, so the order in
\* which an instance iterates plays no part.
PartialEq(T, a, b) == a = b /\ ~HasNaN(T, a)

(***************************************************************************)
(* Values the clients of the crate build (lib.rs, tests)                   *)
(***************************************************************************)
None == [some |-> FALSE]
Some(x) == [some |-> TRUE, v |-> x]

SeqsUpTo(S, n) == UNION {[1..len -> S] : len \in 0..n}
\* All maps with keys among KeyPool and values in V.
Maps(V) == UNION {[keys -> V] : keys \in SUBSET KeyPool}
\* The iteration orders an instance can have.
Orders == {ord \in [1..Cardinality(KeyPool) -> KeyPool] :
             \A i, j \in DOMAIN ord : i # j => ord[i] # ord[j]}

U64Pool == {0, 1, 300}
JsonPool == {JNull, JBool(TRUE), JInt(1), JFloat(Fin(3)), JStr("a"),
             JArr(<<JInt(1), JStr("a")>>), JObj(<< <<"a", JNull>> >>)}

SomeRecords == {<<>>, [a |-> JInt(1)], [a |-> JStr("a"), k1 |-> JNull]}
SomeQueryOptions ==
  {[sort_by |-> None, limit |-> None, offset |-> None],
   [sort_by |-> Some(<<"a", [tag |-> "Desc"]>>), limit |-> Some(300), offset |-> Some(0)]}
SomeDbStats == {[collection_count |-> 1, record_count |-> 300]}
SomeBatchRequests ==
  {[requests |-> <<>>],
   [requests |-> [a |-> <<"db", "">>]],
   [requests |-> [a |-> <<"db", "db">>, k1 |-> <<"", "db">>]]}
SomeBatchResponses ==
  {[results |-> <<>>],
   [results |-> [a |-> None]],
   [results |-> [a |-> Some([a |-> JInt(1)]), k1 |-> None]]}
SomeRecordSets ==
  {[records |-> <<>>], [records |-> <<[a |-> JInt(1)], <<>> >>]}
KidFilters ==
  {[tag |-> "Equals", field |-> "a", value |-> JBool(TRUE)],
   [tag |-> "GreaterThan", field |-> "a", value |-> Fin(42)]}
SomeFilters ==
  KidFilters \cup
  {[tag |-> "LessThan", field |-> "a", value |-> NaN],
   [tag |-> "Or", Or |-> <<>>],
   [tag |-> "And", And |-> <<[tag |-> "Equals", field |-> "a", value |-> JBool(TRUE)],
                            [tag |-> "GreaterThan", field |-> "a", value |-> Fin(42)]>>]}
SomeResponses ==
  {[tag |-> "Success"], [tag |-> "Error", Error |-> "db"],
   [tag |-> "Record", Record |-> None],
   [tag |-> "Record", Record |-> Some([a |-> JInt(1)])]}

\* The values of a type that appear inside larger values.
RECURSIVE Sample(_)
RECURSIVE Products(_)
\* All sequences whose i-th element is a sample of the i-th type.
Products(ts) ==
  IF Len(ts) = 0 THEN {<<>>}
  ELSE {<<x>> \o rest : x \in Sample(Head(ts)), rest \in Products(Tail(ts))}

Sample(T) ==
  CASE T.k = "String" -> NamePool
    [] T.k = "bool" -> BOOLEAN
    [] T.k \in {"u64", "usize"} -> U64Pool
    [] T.k = "f64" -> F64Pool
    [] T.k = "Value" -> JsonPool
    [] T.k = "Option" -> {None} \cup {Some(x) : x \in Sample(T.of)}
    [] T.k = "Vec" -> SeqsUpTo(Sample(T.of), MaxLen)
    [] T.k = "Tuple" -> Products(T.ts)
    [] T.k = "HashMap" -> Maps(Sample(T.of))
    [] T.k = "Box" -> Sample(T.of)
    [] T.k = "Named" ->
         CASE T.n = "Record" -> SomeRecords
           [] T.n = "RecordSet" -> SomeRecordSets
           [] T.n = "Filter" -> SomeFilters
           [] T.n = "QueryOptions" -> SomeQueryOptions
           [] T.n = "Direction" -> {[tag |-> "Asc"], [tag |-> "Desc"]}
           [] T.n = "DbStats" -> SomeDbStats
           [] T.n = "BatchRequest" -> SomeBatchRequests
           [] T.n = "BatchResponse" -> SomeBatchResponses
           [] T.n = "QueryMetrics" ->
                {[execution_time_micros |-> n] : n \in {0, 300}}
           [] T.n = "Response" -> SomeResponses

\* The struct values (or, with a tag, the values of one variant) whose
\* fields are samples of the field types.
Build(pairs, fields) ==
  {FromPairs(pairs \o [i \in 1..Len(fields) |-> <<fields[i][1], p[i]>>]) :
     p \in Products([i \in 1..Len(fields) |-> fields[i][2]])}

VariantValues(var) == Build(<< <<"tag", var.name>> >>, var.fields)

\* Filter: every leaf, and And/Or nested up to depth d.
LeafFilters ==
  UNION {VariantValues(FilterDecl.variants[i]) : i \in 1..5}

RECURSIVE NestedFilters(_)
NestedFilters(d) ==
  IF d = 0 THEN {}
  ELSE LET kid == [tag |-> "GreaterThan", field |-> "a", value |-> Fin(42)]
           kids == SeqsUpTo(KidFilters, MaxLen)
                     \cup UNION {{<<x>>, <<x, kid>>, <<kid, x>>} : x \in NestedFilters(d - 1)}
       IN {[tag |-> "And", And |-> fs] : fs \in kids}
            \cup {[tag |-> "Or", Or |-> fs] : fs \in kids}

\* The nesting of a Filter: And/Or inside And/Or; a filter without And/Or
\* has nesting 0.
RECURSIVE FilterDepth(_)
FilterDepth(f) ==
  IF f.tag \notin {"And", "Or"} THEN 0
  ELSE LET kids == f[f.tag]
           ds == {FilterDepth(kids[i]) : i \in 1..Len(kids)} \cup {0}
       IN 1 + CHOOSE d \in ds : \A e \in ds : e <= d

\* Filter::And / Filter::Or wrapped d times around one threshold filter:
\* And(vec![And(vec![ ... GreaterThan ... ])]).
RECURSIVE Chain(_, _)
Chain(tag, d) ==
  IF d = 0 THEN [tag |-> "GreaterThan", field |-> "a", value |-> Fin(42)]
  ELSE FromPairs(<< <<"tag", tag>>, <<tag, <<Chain(tag, d - 1)>> >> >>)

\* Filters nested to the limit and beyond it, alone and inside a request.
DeepFilters ==
  {Chain(tag, MaxFilterDepth + d) : tag \in {"And", "Or"}, d \in 0..MaxDepth}

DeepRequests ==
  {[tag |-> "CountRecords", db_name |-> "db", collection |-> "", filter |-> f] :
     f \in DeepFilters}

\* Response: every variant but ResultMetrics, and ResultMetrics wrapped up
\* to depth d around a response.
PlainResponses ==
  UNION {VariantValues(ResponseDecl.variants[i]) : i \in 1..16}

RECURSIVE WrappedResponses(_)
WrappedResponses(d) ==
  IF d = 0 THEN {}
  ELSE {[tag |-> "ResultMetrics", data |-> x, metrics |-> m] :
          x \in SomeResponses \cup WrappedResponses(d - 1),
          m \in Sample(Named("QueryMetrics"))}

Kinds == {"Record", "RecordSet", "Filter", "QueryOptions", "Direction", "DbStats",
          "BatchRequest", "BatchResponse", "Request", "Response"}

Values(kind) ==
  CASE kind = "Record" -> Maps(JsonPool)
    [] kind = "Filter" -> LeafFilters \cup NestedFilters(MaxDepth) \cup DeepFilters
    [] kind = "Direction" -> Sample(Named("Direction"))
    [] kind = "Request" ->
         UNION {VariantValues(RequestDecl.variants[i]) : i \in 1..Len(RequestDecl.variants)}
           \cup DeepRequests
    [] kind = "Response" -> PlainResponses \cup WrappedResponses(MaxDepth)
    [] OTHER -> Build(<<>>, Decl(kind).fields)

\* Byte sequences a peer can send in place of a message of kind k: for each
\* variant the encoding of the message that takes the most bytes, whole, cut
\* short at every length and with one byte replaced at every place; a
\* variant index outside the enum; nesting beyond what the stack holds; and
\* every short sequence over a few bytes.
Prefixes(b) == {Take(b, n) : n \in 0..Len(b)}

BadBytes == {2, 255}
Corrupted(b) == {[b EXCEPT ![i] = x] : i \in 1..Len(b), x \in BadBytes}

TooDeepRequests ==
  {[tag |-> "CountRecords", db_name |-> "db", collection |-> "",
    filter |-> Chain(tag, (StackFrames \div 2) + 1)] : tag \in {"And", "Or"}}

Longest(k, name) ==
  LET vs == {v \in Values(k) : v.tag = name}
      Size(v) == Len(Enc(Named(k), v, CHOOSE ord \in Orders : TRUE))
  IN CHOOSE v \in vs : \A w \in vs : Size(w) <= Size(v)

Encodings(k) ==
  {Enc(Named(k), v, ord) :
     v \in {Longest(k, Decl(k).variants[i].name) : i \in 1..Len(Decl(k).variants)}
            \cup (IF k = "Request" THEN TooDeepRequests ELSE {}),
     ord \in Orders}

OutOfRange(k) ==
  {U32LE(n) \o rest : n \in {Len(Decl(k).variants), 255, 65536},
                      rest \in {<<>>, U64LE(0)}}
    \cup {<<0, 0, 0, 1>>, <<255, 255, 255, 255>>}

ReceivedKinds == {"Request", "Response"}

ReceivedBytes(k) ==
  UNION {Prefixes(b) \cup Corrupted(b) : b \in Encodings(k)}
    \cup OutOfRange(k)
    \cup SeqsUpTo({0, 1, 255}, 4)

(***************************************************************************)
(* State: one value on its way through the two serializers, or bytes on    *)
(* their way into the decoder                                              *)
(***************************************************************************)
VARIABLES
  pc,       \* "idle", "built", "encoded", "decoded", "rebuilt", "reencoded",
            \* "printed", "parsed", "received", "answered"
  kind,     \* the type of the value
  value,    \* the value under test
  order,    \* the iteration order of this instance's HashMaps
  wire,     \* bincode::serialize(&value)
  decoded,  \* bincode::deserialize(&wire)
  order2,   \* the iteration order of an equal value built on its own
  wire2,    \* bincode::serialize of that equal value
  doc,      \* serde_json::to_string(&value)
  parsed    \* serde_json::from_str(&doc)

vars == <<pc, kind, value, order, wire, decoded, order2, wire2, doc, parsed>>

\* Mutant: the encoder appends to a buffer it does not clear, so what an
\* earlier invocation wrote is still in front.
BincodeSerializeIntoUsedBuffer(T, v, ord) == wire \o Enc(T, v, ord)

\* bincode::serialize(&value): a fresh Vec<u8> holding the encoding.
BincodeSerialize(T, v, ord) == Enc(T, v, ord)

Nothing == [ok |-> FALSE, err |-> "not run"]
AnyOrder == CHOOSE ord \in Orders : TRUE

Init ==
  /\ pc = "idle"
  /\ kind = "Direction"
  /\ value = [tag |-> "Asc"]
  /\ order = AnyOrder
  /\ wire = <<>>
  /\ decoded = Nothing
  /\ order2 = AnyOrder
  /\ wire2 = <<>>
  /\ doc = JNull
  /\ parsed = Nothing

\* A value is built; each HashMap::new() draws its own RandomState.
Construct(k, v, ord) ==
  /\ pc = "idle"
  /\ pc' = "built"
  /\ kind' = k
  /\ value' = v
  /\ order' = ord
  /\ UNCHANGED <<wire, decoded, order2, wire2, doc, parsed>>

\* let serialized = bincode::serialize(&value)
SerializeBincode ==
  /\ pc = "built"
  /\ pc' = "encoded"
  /\ wire' = BincodeSerialize(Named(kind), value, order)
  /\ UNCHANGED <<kind, value, order, decoded, order2, wire2, doc, parsed>>

\* let deserialized = bincode::deserialize(&serialized)
DeserializeBincode ==
  /\ pc = "encoded"
  /\ pc' = "decoded"
  /\ decoded' = BincodeDeserialize(Named(kind), wire)
  /\ UNCHANGED <<kind, value, order, wire, order2, wire2, doc, parsed>>

\* An equal value is built again, in maps of its own.
ConstructEqual(ord) ==
  /\ pc = "encoded"
  /\ pc' = "rebuilt"
  /\ order2' = ord
  /\ UNCHANGED <<kind, value, order, wire, decoded, wire2, doc, parsed>>

\* The encoder is invoked on the equal value.
SerializeEqual ==
  /\ pc = "rebuilt"
  /\ pc' = "reencoded"
  /\ wire2' = BincodeSerialize(Named(kind), value, order2)
  /\ UNCHANGED <<kind, value, order, wire, decoded, order2, doc, parsed>>

\* let serialized = serde_json::to_string(&value)
SerializeJson ==
  /\ pc = "built"
  /\ pc' = "printed"
  /\ doc' = ToJson(Named(kind), value, order)
  /\ UNCHANGED <<kind, value, order, wire, decoded, order2, wire2, parsed>>

\* let deserialized = serde_json::from_str(&serialized)
DeserializeJson ==
  /\ pc = "printed"
  /\ pc' = "parsed"
  /\ parsed' = SerdeJsonFromStr(Named(kind), doc)
  /\ UNCHANGED <<kind, value, order, wire, decoded, order2, wire2, doc>>

\* Bytes arrive that are to hold a message of kind k.
Receive(k, b) ==
  /\ pc = "idle"
  /\ pc' = "received"
  /\ kind' = k
  /\ wire' = b
  /\ UNCHANGED <<value, order, decoded, order2, wire2, doc, parsed>>

\* bincode::deserialize(&bytes) on what arrived.
DeserializeReceived ==
  /\ pc = "received"
  /\ pc' = "answered"
  /\ decoded' = BincodeDeserialize(Named(kind), wire)
  /\ UNCHANGED <<kind, value, order, wire, order2, wire2, doc, parsed>>

\* The value and everything derived from it go out of scope.
Release ==
  /\ pc \in {"decoded", "reencoded", "parsed", "answered"}
  /\ pc' = "idle"
  /\ kind' = "Direction"
  /\ value' = [tag |-> "Asc"]
  /\ order' = AnyOrder
  /\ wire' = <<>>
  /\ decoded' = Nothing
  /\ order2' = AnyOrder
  /\ wire2' = <<>>
  /\ doc' = JNull
  /\ parsed' = Nothing

Next ==
  \/ \E k \in Kinds : \E v \in Values(k) : \E ord \in Orders : Construct(k, v, ord)
  \/ SerializeBincode
  \/ DeserializeBincode
  \/ \E ord \in Orders : ConstructEqual(ord)
  \/ SerializeEqual
  \/ SerializeJson
  \/ DeserializeJson
  \/ \E k \in ReceivedKinds : \E b \in ReceivedBytes(k) : Receive(k, b)
  \/ DeserializeReceived
  \/ Release

Spec == Init /\ [][Next]_vars

(***************************************************************************)
(* Properties                                                              *)
(***************************************************************************)
Variant(k, v) == VariantNamed(Decl(k).variants, v.tag)
IsEnum(k) == Decl(k).shape = "enum"

\* C1: binary round trip.  Decoding the bincode encoding of any value of
\* any of the protocol's types succeeds and yields a value equal to the one
\* encoded, values carrying JsonValue payloads included.
C1_BinaryRoundTrip ==
  pc = "decoded" => decoded.ok /\ PartialEq(Named(kind), decoded.v, value)

\* C2: JSON round trip.  Reading back the JSON document written for any
\* value of any of the protocol's types succeeds and yields a value equal
\* to the original, for every field value, every f64 threshold included.
C2_JsonRoundTrip ==
  pc = "parsed" => parsed.ok /\ PartialEq(Named(kind), parsed.v, value)

\* The values C3 is about: QueryOptions, DbStats, BatchRequest, Direction,
\* and the requests and responses with no payload or with strings only.
StringOnly(var) == \A i \in 1..Len(var.fields) : var.fields[i][2] = TString
C3_Covered ==
  \/ kind \in {"QueryOptions", "DbStats", "BatchRequest", "Direction"}
  \/ kind \in {"Request", "Response"} /\ StringOnly(Variant(kind, value))

\* C3: for a value that contains no JsonValue (QueryOptions, DbStats,
\* BatchRequest, Direction, payload-free and string-only messages),
\* bincode::deserialize of bincode::serialize succeeds and gives back an
\* equal value, whatever is absent or present in it.
C3_ValueFreeBinaryRoundTrip ==
  (pc = "decoded" /\ C3_Covered) => decoded.ok /\ decoded.v = value

\* A QueryOptions with sort_by and offset present and limit absent came
\* back from the wire unchanged.
C3_Witness ==
  /\ pc = "decoded"
  /\ kind = "QueryOptions"
  /\ value.sort_by.some /\ ~value.limit.some /\ value.offset.some
  /\ value.offset.v = 300
  /\ decoded.ok /\ decoded.v = value

\* The BatchRequest in hand, if the value is or carries one.
BatchRequestsOf(k, v) ==
  IF k = "BatchRequest" THEN {v}
  ELSE IF k = "Request" /\ v.tag = "ExecuteBatchGet" THEN {v.ExecuteBatchGet}
  ELSE {}

AllTriples(b) == \A key \in DOMAIN b.requests : Len(b.requests[key]) = 3

\* C4: every entry of every BatchRequest that is constructed, encoded or
\* decoded maps its key to three strings (db_name, collection, record_id).
C4_BatchEntriesAreTriples ==
  /\ pc # "idle" => \A b \in BatchRequestsOf(kind, value) : AllTriples(b)
  /\ (pc = "decoded" /\ decoded.ok) =>
       \A b \in BatchRequestsOf(kind, decoded.v) : AllTriples(b)

GoldenRequest ==
  [CreateDatabase |-> 0, DropDatabase |-> 1, ListDatabases |-> 2,
   ListCollections |-> 3, CreateCollection |-> 4, DropCollection |-> 5,
   GetStats |-> 6, Flush |-> 7, CreateIndex |-> 8, DropIndex |-> 9,
   ListIndexes |-> 10, CreateRecord |-> 11, UpdateRecord |-> 12,
   UpsertRecord |-> 13, GetRecord |-> 14, DeleteRecord |-> 15,
   GetLastInsertId |-> 16, FindRecords |-> 17, CountRecords |-> 18,
   GetRecordWithRelated |-> 19, ExecuteBatchGet |-> 20]
GoldenResponse ==
  [Success |-> 0, Error |-> 1, DatabaseList |-> 2, DatabaseCreated |-> 3,
   DatabaseDropped |-> 4, CollectionList |-> 5, Stats |-> 6, IndexList |-> 7,
   Record |-> 8, RecordSet |-> 9, RecordCount |-> 10, RecordDeleted |-> 11,
   LastInsertId |-> 12, RecordWithRelated |-> 13, BatchResponse |-> 14,
   RecordIdSet |-> 15, ResultMetrics |-> 16]
GoldenFilter ==
  [Equals |-> 0, NotEquals |-> 1, GreaterThan |-> 2, LessThan |-> 3, In |-> 4,
   And |-> 5, Or |-> 6]
GoldenDirection == [Asc |-> 0, Desc |-> 1]
Golden(k) ==
  CASE k = "Request" -> GoldenRequest
    [] k = "Response" -> GoldenResponse
    [] k = "Filter" -> GoldenFilter
    [] k = "Direction" -> GoldenDirection

\* C5: the encoding of a Request, Response, Filter or Direction begins
\* with the discriminant of its variant, the position of the variant in
\* declaration order counted from 0 (CreateDatabase = 0 .. ExecuteBatchGet
\* = 20 of exactly 21; Success = 0 .. RecordIdSet = 15; Equals = 0 .. Or = 6;
\* 0 and 1 for Direction), and goes on with the encoding of its payload.
C5_DiscriminantFirst ==
  /\ Len(RequestDecl.variants) = 21
  /\ (pc = "encoded" /\ IsEnum(kind)) =>
       /\ Len(wire) >= 4
       /\ Take(wire, 4) = <<Golden(kind)[value.tag], 0, 0, 0>>
       /\ Drop(wire, 4) = EncFields(Variant(kind, value).fields, value, order)

\* An ExecuteBatchGet with two entries went out behind discriminant 20.
C5_Witness ==
  /\ pc = "encoded"
  /\ kind = "Request"
  /\ value.tag = "ExecuteBatchGet"
  /\ Cardinality(DOMAIN value.ExecuteBatchGet.requests) = 2
  /\ Take(wire, 4) = <<20, 0, 0, 0>>
  /\ Len(wire) > 12

WellFormedMetrics(r) ==
  r.tag = "ResultMetrics" =>
    /\ r.data.tag # "ResultMetrics"
    /\ "execution_time_micros" \in DOMAIN r.metrics

\* C6: in every Response::ResultMetrics that is constructed or decoded,
\* data is a variant other than ResultMetrics and metrics carries
\* execution_time_micros.
C6_NoNestedResultMetrics ==
  /\ (pc # "idle" /\ kind = "Response") => WellFormedMetrics(value)
  /\ (pc = "decoded" /\ kind = "Response" /\ decoded.ok) => WellFormedMetrics(decoded.v)
  /\ (pc = "parsed" /\ kind = "Response" /\ parsed.ok) => WellFormedMetrics(parsed.v)

\* The values C8 is about: an Error, and the three ways of saying "absent".
HasNoneEntry(b) == \E key \in DOMAIN b.results : ~b.results[key].some
C8_Covered ==
  \/ /\ kind = "Response"
     /\ \/ value.tag = "Error"
        \/ value.tag = "Record" /\ ~value.Record.some
        \/ value.tag = "RecordWithRelated" /\ ~value.RecordWithRelated.some
        \/ value.tag = "BatchResponse" /\ HasNoneEntry(value.BatchResponse)
  \/ kind = "BatchResponse" /\ HasNoneEntry(value)

\* C8: absence is never conflated with error.  Record(None),
\* RecordWithRelated(None) and a None entry of a BatchResponse are not
\* Error values, and after an encode/decode round trip (binary or JSON)
\* each of them comes back as the same None case and Error(msg) comes back
\* as Error(msg) with the same string.
C8_AbsenceSurvivesRoundTrip ==
  /\ (pc # "idle" /\ C8_Covered /\ kind = "Response" /\ value.tag # "Error") =>
       \A msg \in StringPool : value # [tag |-> "Error", Error |-> msg]
  /\ (pc = "decoded" /\ C8_Covered) => decoded.ok /\ decoded.v = value
  /\ (pc = "parsed" /\ C8_Covered) => parsed.ok /\ parsed.v = value

RECURSIVE SameIteration(_, _, _, _)
SameIteration(T, v, o1, o2) ==
  CASE T.k = "Option" -> v.some => SameIteration(T.of, v.v, o1, o2)
    [] T.k = "Vec" -> \A i \in 1..Len(v) : SameIteration(T.of, v[i], o1, o2)
    [] T.k = "Tuple" -> \A i \in 1..Len(T.ts) : SameIteration(T.ts[i], v[i], o1, o2)
    [] T.k = "HashMap" ->
         /\ Iter(DOMAIN v, o1) = Iter(DOMAIN v, o2)
         /\ \A key \in DOMAIN v : SameIteration(T.of, v[key], o1, o2)
    [] T.k = "Box" -> SameIteration(T.of, v, o1, o2)
    [] T.k = "Named" ->
         (LET d == Decl(T.n)
              fields == CASE d.shape = "alias" -> <<>>
                          [] d.shape = "struct" -> d.fields
                          [] d.shape = "enum" -> VariantNamed(d.variants, v.tag).fields
          IN IF d.shape = "alias" THEN SameIteration(d.ty, v, o1, o2)
             ELSE \A i \in 1..Len(fields) :
                    SameIteration(fields[i][2], v[fields[i][1]], o1, o2))
    [] OTHER -> TRUE

SpecName(k, tag) ==
  IF k = "Direction" THEN (IF tag = "Asc" THEN "Ascending" ELSE "Descending") ELSE tag

\* The structural JSON form of an enum value v under variant name name: a
\* bare string for a variant with no payload; otherwise an object with the
\* single key name, holding for a tuple variant the payload and for a
\* struct variant an object with one member per field, named as the field.
StructuralForm(v, name, d) ==
  IF DOMAIN v = {"tag"} THEN d = JStr(name)
  ELSE /\ d.t = "obj"
       /\ Len(d.m) = 1
       /\ d.m[1][1] = name
       /\ v.tag \notin DOMAIN v =>
            /\ d.m[1][2].t = "obj"
            /\ Len(d.m[1][2].m) = Cardinality(DOMAIN v) - 1
            /\ {d.m[1][2].m[i][1] : i \in 1..Len(d.m[1][2].m)} = DOMAIN v \ {"tag"}

\* The deepest Filter nesting inside a value of kind k.
MessageFilterDepth(k, v) ==
  CASE k = "Filter" -> FilterDepth(v)
    [] k = "Request" /\ "filter" \in DOMAIN v -> FilterDepth(v.filter)
    [] OTHER -> 0

\* C11: Filter depth bound.  Decoding an encoded message whose Filter
\* nesting (And/Or inside And/Or) exceeds the maximum depth yields a decode
\* error and no decoded Filter value.
C11_DeepFilterRejected ==
  (pc = "decoded" /\ MessageFilterDepth(kind, value) > MaxFilterDepth) => ~decoded.ok

\* The error kinds bincode::deserialize returns.
DecodeErrors ==
  {"UnexpectedEof", "InvalidUtf8Encoding", "InvalidBoolEncoding", "InvalidTagEncoding",
   "InvalidVariantIndex", "DeserializeAnyNotSupported"}

\* v is a complete value of type T: every field of every struct and variant
\* is there and is itself complete, and every tag names a declared variant.
RECURSIVE Complete(_, _)
CompleteFields(fields, names, v) ==
  /\ DOMAIN v = names \cup {fields[i][1] : i \in 1..Len(fields)}
  /\ \A i \in 1..Len(fields) : Complete(fields[i][2], v[fields[i][1]])

Complete(T, v) ==
  CASE T.k = "String" -> v \in StringPool \cup {OtherString}
    [] T.k = "bool" -> v \in BOOLEAN
    [] T.k \in {"u64", "usize"} -> v \in 0..U64Cap
    [] T.k = "f64" -> v \in F64Pool \cup {OtherF64}
    [] T.k = "Value" -> TRUE
    [] T.k = "Option" -> IF v.some THEN DOMAIN v = {"some", "v"} /\ Complete(T.of, v.v)
                         ELSE DOMAIN v = {"some"}
    [] T.k = "Vec" -> \A i \in 1..Len(v) : Complete(T.of, v[i])
    [] T.k = "Tuple" -> Len(v) = Len(T.ts) /\ \A i \in 1..Len(v) : Complete(T.ts[i], v[i])
    [] T.k = "HashMap" -> \A key \in DOMAIN v : Complete(TString, key) /\ Complete(T.of, v[key])
    [] T.k = "Box" -> Complete(T.of, v)
    [] T.k = "Named" ->
         (LET d == Decl(T.n)
          IN CASE d.shape = "alias" -> Complete(d.ty, v)
               [] d.shape = "struct" -> CompleteFields(d.fields, {}, v)
               [] d.shape = "enum" ->
                    /\ "tag" \in DOMAIN v
                    /\ HasVariant(d.variants, v.tag)
                    /\ CompleteFields(VariantNamed(d.variants, v.tag).fields, {"tag"}, v))

\* C12: decode resistance.  Whatever bytes arrive (a valid encoding, a
\* proper prefix of one, one with a byte replaced, a discriminant outside
\* the Request or Response variants), decoding returns a complete value of
\* the type or returns a decode error; it returns no partial value and
\* never fails to return.
C12_DecodeResistance ==
  pc = "answered" =>
    IF decoded.ok THEN Complete(Named(kind), decoded.v)
    ELSE decoded.err \in DecodeErrors

\* C10 as stated: every Request, Response and Direction serializes to the
\* structural JSON form under the variant names of the specification.
C10_SpecNamesInJson ==
  (pc = "printed" /\ kind \in {"Request", "Response", "Direction"}) =>
    StructuralForm(value, SpecName(kind, value.tag), doc)

\* C10 amended: every Request, Response and Direction serializes to the
\* structural JSON form under the variant names the source declares; for
\* Direction these are Asc and Desc.
C10_DeclaredNamesInJson ==
  (pc = "printed" /\ kind \in {"Request", "Response", "Direction"}) =>
    StructuralForm(value, value.tag, doc)

\* Direction::Desc was written as the bare string "Desc".
C10_Witness ==
  /\ pc = "printed"
  /\ kind = "Direction"
  /\ value.tag = "Desc"
  /\ doc = JStr("Desc")

====
